---- MODULE Spec2Model ----
(***************************************************************************)
(* Model of list_with_depth (src/src/lib.rs): depth-limited recursive      *)
(* listing of an object store.  A path is a sequence of segments.  Every   *)
(* call of next_level is identified by the prefix whose listing it holds:  *)
(* the call made by list_with_depth by the starting prefix, a task spawned *)
(* into a JoinSet by the common prefix it lists.                           *)
(***************************************************************************)
EXTENDS Integers, Sequences, FiniteSets, TLC

\* ------------------------------------------------------------------ bounds
\* Largest target depth passed to list_with_depth.
MaxDepth == 2
\* Largest number of faults (failed listings plus panicking tasks) per call.
MaxFaults == 2
\* A cap on concurrent listings, as a configuration would set it, to compare
\* the fan-out of the code with.
ConcurrencyCap == 2
\* Width of usize in bits, scaled down so that the largest usize is a depth
\* the key universe has.
UsizeBits == 2

UsizeModulus == 2 ^ UsizeBits

\* usize::MAX
UsizeMax == UsizeModulus - 1

\* ------------------------------------------------------- the object store
\* The keys a store may hold, in the order of Path (the order of the raw
\* string, '.' < '/' < letters): the six keys of the tests and one more
\* under a second root directory.
KEYS ==
  << <<"a.txt">>,
     <<"foo", "b.txt">>,
     <<"foo", "bar", "c.txt">>,
     <<"foo", "bar", "d.txt">>,
     <<"foo", "baz", "bleh", "f.txt">>,
     <<"foo", "baz", "e.txt">>,
     <<"qux", "g.txt">> >>

KeySet == {KEYS[i] : i \in 1..Len(KEYS)}

IsPrefix(p, k) == Len(p) <= Len(k) /\ SubSeq(k, 1, Len(p)) = p

\* Every directory of the key universe, the root (the empty path) included.
Dirs == UNION {{SubSeq(k, 1, n) : n \in 0..(Len(k) - 1)} : k \in KeySet}

\* The prefix one segment above a common prefix: the call that spawned it.
Parent(t) == SubSeq(t, 1, Len(t) - 1)

EmptyList == [objects |-> <<>>, common_prefixes |-> <<>>]

RECURSIVE Scan(_, _, _)
\* One pass over the keys in Path order, as the in-memory store makes it:
\* a key one segment below the prefix is an object, a deeper key yields
\* its first segment below the prefix as a common prefix, once.
Scan(s, p, i) ==
  IF i = 0 THEN EmptyList
  ELSE LET acc == Scan(s, p, i - 1)
           k   == KEYS[i]
       IN  IF k \notin s \/ ~IsPrefix(p, k) \/ Len(k) = Len(p) THEN acc
           ELSE IF Len(k) = Len(p) + 1
                THEN [acc EXCEPT !.objects = Append(@, k)]
                ELSE LET cp == SubSeq(k, 1, Len(p) + 1)
                     IN  IF \E j \in 1..Len(acc.common_prefixes) :
                                acc.common_prefixes[j] = cp
                         THEN acc
                         ELSE [acc EXCEPT !.common_prefixes = Append(@, cp)]

\* store.list_with_delimiter(prefix): the objects and the common prefixes
\* one level below the prefix.
list_with_delimiter(s, p) == Scan(s, p, Len(KEYS))

Range(q) == {q[i] : i \in 1..Len(q)}

\* ------------------------------------------------------------------ state
VARIABLES
  store,                \* the keys of the object store (never written)
  prefix,               \* the starting prefix of the call
  target_depth,         \* the depth argument
  pc,                   \* position of each call or task
  depth_of_list_result, \* the argument of that name of each next_level
  list_result,          \* the listing each next_level was given
  set,                  \* JoinSet of each call: tasks not yet joined
  ready,                \* JoinSet of each call: finished tasks, in order
  combined,             \* the accumulator of each join loop
  result,               \* what each call or task returned
  calls,                \* number of list_with_delimiter calls per prefix
  failLog,              \* prefixes of the failed listings, in time order
  callNo,               \* 1 for the first call, 2 for the repeated one
  prev                  \* result of the first call, once repeated

vars == << store, prefix, target_depth, pc, depth_of_list_result, list_result,
           set, ready, combined, result, calls, failLog, callNo, prev >>

NoResult == [kind |-> "none", objects |-> <<>>, common_prefixes |-> <<>>,
             at |-> <<>>]

Ok(lr) == [kind |-> "ok", objects |-> lr.objects,
           common_prefixes |-> lr.common_prefixes, at |-> <<>>]

\* object_store::Error returned by the listing of prefix p.
ListError(p) == [kind |-> "list_error", objects |-> <<>>,
                 common_prefixes |-> <<>>, at |-> p]

\* object_store::Error converted from the JoinError of task p.
JoinError(p) == [kind |-> "join_error", objects |-> <<>>,
                 common_prefixes |-> <<>>, at |-> p]

IsErr(r) == r.kind \in {"list_error", "join_error"}

Active == {"spawned", "listing", "joining"}

\* Number of faults injected so far in this call.
Faults == Len(failLog) + Cardinality({t \in Dirs : pc[t] = "panicked"})

\* A caller has invoked list_with_depth(store, prefix, target_depth) and the
\* future has not been polled yet.
Init ==
  /\ store \in SUBSET KeySet
  /\ prefix \in Dirs
  /\ target_depth \in 0..MaxDepth
  /\ pc = [t \in Dirs |-> IF t = prefix THEN "spawned" ELSE "none"]
  /\ depth_of_list_result = [t \in Dirs |-> 0]
  /\ list_result = [t \in Dirs |-> EmptyList]
  /\ set = [t \in Dirs |-> {}]
  /\ ready = [t \in Dirs |-> <<>>]
  /\ combined = [t \in Dirs |-> EmptyList]
  /\ result = [t \in Dirs |-> NoResult]
  /\ calls = [t \in Dirs |-> 0]
  /\ failLog = <<>>
  /\ callNo = 1
  /\ prev = NoResult

\* ------------------------------------------------- the pieces of next_level
\* Mutants of the base case test: never taken, and taken one level late.
BaseCaseNever(d, target) == FALSE

BaseCaseLate(d, target) == d = target + 1

\* The base case test.
BaseCase(d, target) == d = target

\* The tasks the fan-out loop spawns: one per common prefix of the listing.
Spawned(lr) == Range(lr.common_prefixes)

\* Mutant: the counter is incremented by two.
NextDepthSkips(d) == (d + 2) % UsizeModulus

\* The depth the spawned task passes to its next_level: usize addition,
\* which wraps on overflow in a release build.
NextDepth(d) == (d + 1) % UsizeModulus

\* Mutant: the accumulator starts from the listing of the level itself.
NewCombinedKeepsLevel(lr) == lr

\* The accumulator before the join loop.
NewCombined(lr) == EmptyList

\* Mutants: the common prefixes of the child are not merged; the child's
\* result replaces the accumulator.
ExtendObjectsOnly(acc, r) ==
  [objects |-> acc.objects \o r.objects,
   common_prefixes |-> acc.common_prefixes]

ExtendOverwrites(acc, r) ==
  [objects |-> r.objects, common_prefixes |-> r.common_prefixes]

\* Mutant: the objects of the child are appended twice.
ExtendTwice(acc, r) ==
  [objects |-> acc.objects \o r.objects \o r.objects,
   common_prefixes |-> acc.common_prefixes \o r.common_prefixes]

\* One iteration of the join loop on an Ok result.
Extend(acc, r) ==
  [objects |-> acc.objects \o r.objects,
   common_prefixes |-> acc.common_prefixes \o r.common_prefixes]

\* Mutants: failed children are skipped; only listing errors are returned.
PropagatesNothing(r) == FALSE

PropagatesListErrorOnly(r) == r.kind = "list_error"

\* handle??: a JoinError or a listing error leaves the join loop.
Propagates(r) == r.kind \in {"list_error", "join_error"}

\* Dropping the JoinSet of t aborts the tasks below t that still run.
Aborted(t) == {d \in Dirs : d # t /\ IsPrefix(t, d) /\ pc[d] \in Active}

\* The ready queues after t finished: its parent's JoinSet is told.
Notify(t) ==
  IF t = prefix THEN ready
  ELSE [ready EXCEPT ![Parent(t)] = Append(@, t)]

\* ---------------------------------------------------------------- actions
\* The call or task t is polled and calls store.list_with_delimiter(t).
Poll(t) ==
  /\ pc[t] = "spawned"
  /\ pc' = [pc EXCEPT ![t] = "listing"]
  /\ calls' = [calls EXCEPT ![t] = @ + 1]
  /\ UNCHANGED << store, prefix, target_depth, depth_of_list_result,
                  list_result, set, ready, combined, result, failLog,
                  callNo, prev >>

\* The listing of t succeeds and next_level runs to its first await: the
\* base case returns the listing, otherwise one task per common prefix is
\* spawned and the join loop begins.
ListOk(t) ==
  /\ pc[t] = "listing"
  /\ LET lr == list_with_delimiter(store, t)
         d  == depth_of_list_result[t]
     IN  /\ list_result' = [list_result EXCEPT ![t] = lr]
         /\ IF BaseCase(d, target_depth)
            THEN /\ pc' = [pc EXCEPT ![t] = "ok"]
                 /\ result' = [result EXCEPT ![t] = Ok(lr)]
                 /\ ready' = Notify(t)
                 /\ UNCHANGED << depth_of_list_result, set, combined >>
            ELSE /\ pc' = [c \in Dirs |->
                             IF c = t THEN "joining"
                             ELSE IF c \in Spawned(lr) THEN "spawned"
                             ELSE pc[c]]
                 /\ depth_of_list_result' =
                      [c \in Dirs |->
                         IF c \in Spawned(lr) THEN NextDepth(d)
                         ELSE depth_of_list_result[c]]
                 /\ set' = [set EXCEPT ![t] = Spawned(lr)]
                 /\ combined' = [combined EXCEPT ![t] = NewCombined(lr)]
                 /\ UNCHANGED << result, ready >>
  /\ UNCHANGED << store, prefix, target_depth, calls, failLog, callNo, prev >>

\* Mutant: a failed listing is logged and the call is made again.
ListErrRetries(t) ==
  /\ pc[t] = "listing"
  /\ Faults < MaxFaults
  /\ pc' = [pc EXCEPT ![t] = "spawned"]
  /\ failLog' = Append(failLog, t)
  /\ UNCHANGED << store, prefix, target_depth, depth_of_list_result,
                  list_result, set, ready, combined, result, calls, callNo,
                  prev >>

\* The listing of t fails: `?` returns the error from t.
ListErr(t) ==
  /\ pc[t] = "listing"
  /\ Faults < MaxFaults
  /\ pc' = [pc EXCEPT ![t] = "err"]
  /\ result' = [result EXCEPT ![t] = ListError(t)]
  /\ failLog' = Append(failLog, t)
  /\ ready' = Notify(t)
  /\ UNCHANGED << store, prefix, target_depth, depth_of_list_result,
                  list_result, set, combined, calls, callNo, prev >>

\* set.join_next() of t yields the task that finished first.  An Ok result
\* is appended to combined; an error returns from t, which drops the
\* JoinSet and aborts the tasks still in it.
JoinNext(t) ==
  /\ pc[t] = "joining"
  /\ ready[t] # <<>>
  /\ LET c == Head(ready[t])
         r == result[c]
     IN  /\ set' = [set EXCEPT ![t] = @ \ {c}]
         /\ IF Propagates(r)
            THEN /\ pc' = [x \in Dirs |->
                             IF x = t THEN "err"
                             ELSE IF x \in Aborted(t) THEN "aborted"
                             ELSE pc[x]]
                 /\ result' = [result EXCEPT ![t] = r]
                 /\ ready' = [Notify(t) EXCEPT ![t] = Tail(@)]
                 /\ UNCHANGED combined
            ELSE /\ combined' = [combined EXCEPT ![t] = Extend(@, r)]
                 /\ ready' = [ready EXCEPT ![t] = Tail(@)]
                 /\ UNCHANGED << pc, result >>
  /\ UNCHANGED << store, prefix, target_depth, depth_of_list_result,
                  list_result, calls, failLog, callNo, prev >>

\* Mutant: t returns Ok(combined) without waiting for the JoinSet to empty.
ReturnEarly(t) ==
  /\ pc[t] = "joining"
  /\ pc' = [pc EXCEPT ![t] = "ok"]
  /\ result' = [result EXCEPT ![t] = Ok(combined[t])]
  /\ ready' = Notify(t)
  /\ UNCHANGED << store, prefix, target_depth, depth_of_list_result,
                  list_result, set, combined, calls, failLog, callNo, prev >>

\* set.join_next() of t yields None: t returns Ok(combined).
Return(t) ==
  /\ pc[t] = "joining"
  /\ set[t] = {}
  /\ pc' = [pc EXCEPT ![t] = "ok"]
  /\ result' = [result EXCEPT ![t] = Ok(combined[t])]
  /\ ready' = Notify(t)
  /\ UNCHANGED << store, prefix, target_depth, depth_of_list_result,
                  list_result, set, combined, calls, failLog, callNo, prev >>

\* A spawned task panics while it runs: its JoinSet is dropped with it and
\* its JoinHandle yields a JoinError.
TaskPanic(t) ==
  /\ t # prefix
  /\ pc[t] \in {"listing", "joining"}
  /\ Faults < MaxFaults
  /\ pc' = [x \in Dirs |->
              IF x = t THEN "panicked"
              ELSE IF x \in Aborted(t) THEN "aborted"
              ELSE pc[x]]
  /\ result' = [result EXCEPT ![t] = JoinError(t)]
  /\ ready' = Notify(t)
  /\ UNCHANGED << store, prefix, target_depth, depth_of_list_result,
                  list_result, set, combined, calls, failLog, callNo, prev >>

Done == pc[prefix] \in {"ok", "err"}

\* The caller repeats the call with the same arguments on the same store.
Repeat ==
  /\ Done
  /\ callNo = 1
  /\ callNo' = 2
  /\ prev' = result[prefix]
  /\ pc' = [t \in Dirs |-> IF t = prefix THEN "spawned" ELSE "none"]
  /\ depth_of_list_result' = [t \in Dirs |-> 0]
  /\ list_result' = [t \in Dirs |-> EmptyList]
  /\ set' = [t \in Dirs |-> {}]
  /\ ready' = [t \in Dirs |-> <<>>]
  /\ combined' = [t \in Dirs |-> EmptyList]
  /\ result' = [t \in Dirs |-> NoResult]
  /\ calls' = [t \in Dirs |-> 0]
  /\ failLog' = <<>>
  /\ UNCHANGED << store, prefix, target_depth >>

Next ==
  \/ \E t \in Dirs : Poll(t)
  \/ \E t \in Dirs : ListOk(t)
  \/ \E t \in Dirs : ListErr(t)
  \/ \E t \in Dirs : JoinNext(t)
  \/ \E t \in Dirs : Return(t)
  \/ \E t \in Dirs : TaskPanic(t)

Spec == Init /\ [][Next]_vars

\* Two calls in a row, every listing succeeding and no task panicking.
NextRepeat ==
  \/ \E t \in Dirs : Poll(t)
  \/ \E t \in Dirs : ListOk(t)
  \/ \E t \in Dirs : JoinNext(t)
  \/ \E t \in Dirs : Return(t)
  \/ Repeat

SpecRepeat == Init /\ [][NextRepeat]_vars

\* The stores that hold keys of the tests only.
TestKeySet == {k \in KeySet : k[1] # "qux"}

InitTests == Init /\ store \subseteq TestKeySet

\* list_with_depth called with any depth a usize holds, usize::MAX included,
\* on a store of keys of the tests.
InitUsize ==
  /\ store \in SUBSET TestKeySet
  /\ prefix \in Dirs
  /\ target_depth \in 0..UsizeMax
  /\ pc = [t \in Dirs |-> IF t = prefix THEN "spawned" ELSE "none"]
  /\ depth_of_list_result = [t \in Dirs |-> 0]
  /\ list_result = [t \in Dirs |-> EmptyList]
  /\ set = [t \in Dirs |-> {}]
  /\ ready = [t \in Dirs |-> <<>>]
  /\ combined = [t \in Dirs |-> EmptyList]
  /\ result = [t \in Dirs |-> NoResult]
  /\ calls = [t \in Dirs |-> 0]
  /\ failLog = <<>>
  /\ callNo = 1
  /\ prev = NoResult

SpecUsize == InitUsize /\ [][Next]_vars

\* Every listing call eventually returns and the runtime polls every task
\* that can run; the store is any subset of the keys of the tests.
FairSpec ==
  /\ InitTests /\ [][Next]_vars
  /\ WF_vars(\E t \in Dirs : Poll(t))
  /\ WF_vars(\E t \in Dirs : ListOk(t) \/ ListErr(t))
  /\ WF_vars(\E t \in Dirs : JoinNext(t))
  /\ WF_vars(\E t \in Dirs : Return(t))

\* ------------------------------------------------- reference definitions
RECURSIVE LevelDirs(_, _, _)
\* The directories reached from p by exactly n descents into common prefixes.
LevelDirs(s, p, n) ==
  IF n = 0 THEN {p}
  ELSE UNION {Range(list_with_delimiter(s, q).common_prefixes) :
                q \in LevelDirs(s, p, n - 1)}

ObjectsAt(s, p, n) ==
  UNION {Range(list_with_delimiter(s, q).objects) : q \in LevelDirs(s, p, n)}

PrefixesAt(s, p, n) ==
  UNION {Range(list_with_delimiter(s, q).common_prefixes) :
           q \in LevelDirs(s, p, n)}

\* Number of directory levels that exist below p.
NsDepth(s, p) ==
  LET ds == {Len(k) - Len(p) - 1 : k \in {x \in s : IsPrefix(p, x) /\ Len(x) > Len(p)}}
  IN  IF ds = {} THEN 0 ELSE CHOOSE m \in ds : \A x \in ds : x <= m

RECURSIVE InOrder(_, _, _)
RECURSIVE InOrderAll(_, _, _)
\* The listing of depth n below p with the subtrees in the order in which
\* their common prefixes were discovered (the order of Path).
InOrder(s, p, n) ==
  IF n = 0 THEN list_with_delimiter(s, p)
  ELSE InOrderAll(s, list_with_delimiter(s, p).common_prefixes, n - 1)

InOrderAll(s, cps, n) ==
  IF cps = <<>> THEN EmptyList
  ELSE LET h == InOrder(s, Head(cps), n)
           r == InOrderAll(s, Tail(cps), n)
       IN  [objects |-> h.objects \o r.objects,
            common_prefixes |-> h.common_prefixes \o r.common_prefixes]

Root == result[prefix]

Tasks == {t \in Dirs : t # prefix /\ pc[t] # "none"}

InFlight == {t \in Dirs : pc[t] = "listing"}

Panicked == {t \in Dirs : pc[t] = "panicked"}

RECURSIVE CallsIn(_)
CallsIn(S) ==
  IF S = {} THEN 0
  ELSE LET t == CHOOSE x \in S : TRUE IN calls[t] + CallsIn(S \ {t})

\* Number of list_with_delimiter calls made so far in this call.
TotalCalls == CallsIn(Dirs)

\* ------------------------------------------------------------------ claims
\* C1: with depth 0 the call returns exactly what the one-level listing of
\* the prefix returns, after exactly one listing call and without spawning
\* a task.
C1_DepthZeroIsOneListing ==
  target_depth = 0 =>
    /\ Tasks = {}
    /\ TotalCalls = calls[prefix] /\ calls[prefix] <= 1
    /\ Done =>
         /\ calls[prefix] = 1
         /\ Root \in {Ok(list_with_delimiter(store, prefix)), ListError(prefix)}

C1_Witness ==
  /\ target_depth = 0 /\ Done /\ Root.kind = "ok"
  /\ Root.objects # <<>> /\ Len(Root.common_prefixes) = 2

\* C2: an Ok result holds exactly the objects listed at the directories
\* reached by exactly target_depth descents: none shallower, none deeper,
\* none missing.
C2_ObjectsOfLevelN ==
  (Done /\ Root.kind = "ok") =>
    Range(Root.objects) = ObjectsAt(store, prefix, target_depth)

C2_Witness ==
  /\ Done /\ Root.kind = "ok" /\ target_depth = 2 /\ prefix = <<>>
  /\ Len(Root.objects) = 3
  /\ ObjectsAt(store, prefix, 1) # {} /\ ObjectsAt(store, prefix, 3) # {}

\* C3: an Ok result holds exactly the common prefixes discovered by the
\* listings of level target_depth; those of the levels above were expanded
\* and are not in it.
C3_PrefixesOfLevelN ==
  (Done /\ Root.kind = "ok") =>
    /\ Range(Root.common_prefixes) = PrefixesAt(store, prefix, target_depth)
    /\ \A n \in 0..(target_depth - 1) :
         Range(Root.common_prefixes) \cap PrefixesAt(store, prefix, n) = {}

C3_Witness ==
  /\ Done /\ Root.kind = "ok" /\ target_depth = 1 /\ prefix = <<>>
  /\ Len(Root.common_prefixes) = 2
  /\ Len(list_result[prefix].common_prefixes) = 2

\* C4: once a listing has failed, the call does not return Ok.
C4_FailedListingFailsCall ==
  (Done /\ failLog # <<>>) => IsErr(Root)

C4_Witness ==
  /\ Done /\ failLog # <<>> /\ failLog[1] # prefix
  /\ \E t \in Tasks : pc[t] = "ok" /\ result[t].objects # <<>>
  /\ Root.kind = "list_error"

\* C5: an Ok result lists the objects and the common prefixes in one
\* sequence whatever the order in which the tasks finished, the sequence
\* the tests assert.
C5_OrderIndependentOfCompletion ==
  (Done /\ Root.kind = "ok") =>
    /\ Root.objects = InOrder(store, prefix, target_depth).objects
    /\ Root.common_prefixes =
         InOrder(store, prefix, target_depth).common_prefixes

\* C6: a repeated call returns the same set of objects and the same set of
\* common prefixes as the first call.
C6_RepeatedCallSetEqual ==
  (callNo = 2 /\ Done /\ Root.kind = "ok" /\ prev.kind = "ok") =>
    /\ Range(Root.objects) = Range(prev.objects)
    /\ Range(Root.common_prefixes) = Range(prev.common_prefixes)

C6_Witness ==
  /\ callNo = 2 /\ Done /\ Root.kind = "ok" /\ prev.kind = "ok"
  /\ Root.objects # prev.objects
  /\ Root.common_prefixes # <<>>

\* C7 (as stated): the number of listing calls in flight never exceeds the
\* configured cap.
C7_InFlightWithinCap == Cardinality(InFlight) <= ConcurrencyCap

\* C7 (amended): no cap is configured; the listing calls in flight are
\* limited by the fan-out alone: one per call or task, all of them of the
\* starting prefix or of a common prefix of the levels 1..target_depth.
C7_InFlightWithinFanOut ==
  /\ InFlight \subseteq
       UNION {LevelDirs(store, prefix, n) : n \in 0..target_depth}
  /\ \A t \in InFlight : t = prefix \/ t \in set[Parent(t)]

C7_Witness ==
  /\ Cardinality(InFlight) > ConcurrencyCap
  /\ \E t \in InFlight : InFlight \cap set[Parent(t)] = set[Parent(t)]

\* C8: a call deeper than the namespace returns Ok with nothing in it when
\* no listing fails and no task panics; a task above the target depth whose
\* listing has no common prefix returns Ok with nothing in it.
C8_BeyondNamespaceIsEmpty ==
  /\ (Done /\ failLog = <<>> /\ Panicked = {}
        /\ target_depth > NsDepth(store, prefix)) => Root = Ok(EmptyList)
  /\ \A t \in Dirs :
       (pc[t] = "ok" /\ depth_of_list_result[t] < target_depth
          /\ list_result[t].common_prefixes = <<>>) =>
         result[t] = Ok(EmptyList)

C8_Witness ==
  /\ Done /\ target_depth > NsDepth(store, prefix) /\ Root = Ok(EmptyList)
  /\ \E t \in Tasks :
       /\ pc[t] = "ok" /\ list_result[t].objects # <<>>
       /\ depth_of_list_result[t] < target_depth
  /\ target_depth = 2 /\ prefix = <<>>

\* C9: under fair scheduling the call eventually returns, and no task is
\* ever created at a level greater than target_depth.
C9_TerminatesWithinDepth ==
  /\ <>Done
  /\ [](\A t \in Dirs : pc[t] # "none" =>
           depth_of_list_result[t] <= target_depth)

C9_Witness ==
  /\ Done /\ Root.kind = "ok" /\ target_depth = 1
  /\ NsDepth(store, prefix) = 2
  /\ Cardinality({t \in Tasks : depth_of_list_result[t] = target_depth}) = 2

\* C10: once a spawned task has panicked, the call does not return Ok.
C10_PanicFailsCall ==
  (Done /\ Panicked # {}) => IsErr(Root)

C10_Witness ==
  /\ Done /\ Panicked # {} /\ failLog = <<>>
  /\ Root.kind = "join_error"
  /\ \E t \in Tasks : pc[t] = "ok"

\* C11: when the listing of the starting prefix fails, the call has returned
\* that error with no task spawned and no other listing call made.
C11_RootFailureIsImmediate ==
  (\E i \in 1..Len(failLog) : failLog[i] = prefix) =>
    /\ Done /\ Root = ListError(prefix)
    /\ Tasks = {}
    /\ TotalCalls = 1 /\ calls[prefix] = 1

C11_Witness ==
  /\ failLog = <<prefix>> /\ Done
  /\ target_depth >= 1
  /\ Len(list_with_delimiter(store, prefix).common_prefixes) = 2

\* C12 (as stated): when listings fail and no task panics, the error the call
\* returns is that of the listing that failed first in time.
C12_ReturnsEarliestFailure ==
  (Done /\ failLog # <<>> /\ Panicked = {}) => Root = ListError(failLog[1])

\* C12 (amended): the error the call returns is the error of a listing that
\* failed or of a task that panicked during the call, the first one its join
\* loops met; it is the error of the failed listing when no other fault
\* occurred.
C12_ReturnsAnEncounteredFailure ==
  /\ \A t \in Dirs :
       /\ result[t].kind = "list_error" =>
            /\ \E i \in 1..Len(failLog) : failLog[i] = result[t].at
            /\ IsPrefix(t, result[t].at)
       /\ result[t].kind = "join_error" =>
            /\ result[t].at \in Panicked
            /\ IsPrefix(t, result[t].at)
  /\ (Done /\ Len(failLog) = 1 /\ Panicked = {}) =>
       Root = ListError(failLog[1])

C12_Witness ==
  /\ Done /\ Len(failLog) = 2 /\ Panicked = {}
  /\ Root = ListError(failLog[2])

\* The prefixes the lister has been called for.
Listed == {t \in Dirs : calls[t] > 0}

RECURSIVE Within(_, _, _)
\* The directories of the set F and those reached from them by at most n
\* descents into common prefixes.
Within(s, F, n) ==
  IF n = 0 \/ F = {} THEN F
  ELSE F \cup
       Within(s, UNION {Range(list_with_delimiter(s, q).common_prefixes) :
                          q \in F}, n - 1)

\* C13: the lister is never called twice for a prefix, failed or not, and
\* only for prefixes at most target_depth segments below the starting one,
\* one task per such prefix; a call that returned Ok has called it exactly
\* once for the starting prefix and for every common prefix discovered at
\* the levels 0..target_depth-1, and for none discovered at target_depth.
C13_OneListingPerPrefix ==
  /\ \A t \in Dirs : calls[t] <= 1
  /\ Listed \ {prefix} \subseteq Tasks
  /\ \A t \in Listed :
       /\ IsPrefix(prefix, t)
       /\ Len(t) - Len(prefix) <= target_depth
  /\ (Done /\ Root.kind = "ok") =>
       /\ Listed = Within(store, {prefix}, target_depth)
       /\ Tasks = Listed \ {prefix}
       /\ Listed \cap PrefixesAt(store, prefix, target_depth) = {}

C13_Witness ==
  /\ Done /\ Root.kind = "ok" /\ target_depth = 1
  /\ Cardinality(Listed) = 3 /\ TotalCalls = 3
  /\ Cardinality(PrefixesAt(store, prefix, target_depth)) = 2

\* The tasks a call that went past the base case spawned.
Children(t) ==
  IF pc[t] \in {"none", "spawned", "listing"}
       \/ BaseCase(depth_of_list_result[t], target_depth)
  THEN {}
  ELSE Spawned(list_result[t])

\* C14: a call or task that returned Ok has no child task pending and none
\* whose result is not merged: every task it spawned returned Ok, left its
\* JoinSet and was taken from the queue of finished tasks.
C14_OkOnlyAfterAllJoined ==
  \A t \in Dirs :
    pc[t] = "ok" =>
      /\ set[t] = {} /\ ready[t] = <<>>
      /\ \A c \in Children(t) : pc[c] = "ok"

C14_Witness ==
  /\ Done /\ Root.kind = "ok"
  /\ Cardinality(Children(prefix)) = 2
  /\ \E c \in Children(prefix) : Cardinality(Children(c)) = 2

RECURSIVE SumObjects(_)
SumObjects(S) ==
  IF S = {} THEN 0
  ELSE LET c == CHOOSE x \in S : TRUE
       IN  Len(result[c].objects) + SumObjects(S \ {c})

RECURSIVE SumPrefixes(_)
SumPrefixes(S) ==
  IF S = {} THEN 0
  ELSE LET c == CHOOSE x \in S : TRUE
       IN  Len(result[c].common_prefixes) + SumPrefixes(S \ {c})

NoDuplicates(q) == \A i, j \in 1..Len(q) : q[i] = q[j] => i = j

\* C15: merging neither drops nor duplicates.  The accumulator of a join
\* loop is as long as the results of the children joined so far, the result
\* of a parent as long as the results of all its children, and an Ok result
\* of the call holds each object and each common prefix of level
\* target_depth exactly once.
C15_MergeKeepsEveryEntryOnce ==
  /\ \A t \in Dirs :
       /\ pc[t] = "joining" =>
            /\ Len(combined[t].objects) = SumObjects(Children(t) \ set[t])
            /\ Len(combined[t].common_prefixes) =
                 SumPrefixes(Children(t) \ set[t])
       /\ (pc[t] = "ok" /\ ~BaseCase(depth_of_list_result[t], target_depth)) =>
            /\ Len(result[t].objects) = SumObjects(Children(t))
            /\ Len(result[t].common_prefixes) = SumPrefixes(Children(t))
  /\ (Done /\ Root.kind = "ok") =>
       /\ NoDuplicates(Root.objects) /\ NoDuplicates(Root.common_prefixes)
       /\ Len(Root.objects) =
            Cardinality(ObjectsAt(store, prefix, target_depth))
       /\ Len(Root.common_prefixes) =
            Cardinality(PrefixesAt(store, prefix, target_depth))

C15_Witness ==
  /\ Done /\ Root.kind = "ok" /\ target_depth = 2
  /\ Len(Root.objects) = 3 /\ Len(Root.common_prefixes) = 1
  /\ Cardinality(Children(prefix)) = 2
  /\ Root.objects # InOrder(store, prefix, target_depth).objects

\* C16: every call or task has depth_of_list_result <= target_depth and
\* holds the listing of a prefix exactly depth_of_list_result descents below
\* the starting prefix; a spawned task counts exactly one more than the call
\* that spawned it, and the increment never goes past usize::MAX, also when
\* target_depth is usize::MAX.
C16_DepthCounterExact ==
  \A t \in Dirs :
    pc[t] # "none" =>
      /\ depth_of_list_result[t] <= target_depth
      /\ depth_of_list_result[t] = Len(t) - Len(prefix)
      /\ t \in LevelDirs(store, prefix, depth_of_list_result[t])
      /\ pc[t] \in {"joining", "ok"} =>
           list_result[t] = list_with_delimiter(store, t)
      /\ t # prefix =>
           /\ depth_of_list_result[Parent(t)] + 1 <= UsizeMax
           /\ depth_of_list_result[t] = depth_of_list_result[Parent(t)] + 1
           /\ ~BaseCase(depth_of_list_result[Parent(t)], target_depth)

C16_Witness ==
  /\ Done /\ Root.kind = "ok" /\ target_depth = UsizeMax
  /\ \E t \in Tasks :
       /\ depth_of_list_result[t] = UsizeMax
       /\ result[t].objects # <<>>

====
